---- MODULE Spec2Model ----
(***************************************************************************)
(* feed-to-pocket: new-item detection (internal/feed/feed.go), the content *)
(* server (internal/http_server/http_server.go), the Pocket client         *)
(* (internal/pocket/pocket.go) and the run loop of feed-to-pocket.go.      *)
(*                                                                         *)
(* Strings are TLA+ strings, "" is Go's empty string.  A time.Time is a    *)
(* natural number of seconds; 0 is the zero time.Time (IsZero).  A nil     *)
(* *time.Time is NoTime, a nil *gofeed.Feed is NilFeed.  A *gofeed.Feed is *)
(* the record [nil, Items].                                                *)
(***************************************************************************)
EXTENDS Naturals, Integers, Sequences, FiniteSets, Bags, TLC

VARIABLES
  config,     \* feed.Config: StartDate and Sources (id -> UseServer, StartDate)
  oldFeed,    \* findNewItems: the parsed previous snapshot, NilFeed when absent
  source,     \* the Source handed to findNewItems (Id set, StartDate defaulted)
  item,       \* compareFeedItems: the loop variable of `range newFeed.Items`
  iter,       \* compareFeedItems: iterations of the loop done so far
  lastLen,    \* compareFeedItems: len(newItems) when the last iteration began
  newItems,   \* compareFeedItems: the output list being built
  dryRun,     \* feed-to-pocket.go: the -dry-run flag
  randomUrl,  \* http_server.Config.RandomUrl
  batchConf,  \* pocket.Config.Batch
  disk,       \* the snapshot file feed.xml of each source: [exists, Items]
  disk0,      \* the snapshot files as they were when the run began
  pc,         \* where the main goroutine is
  next,       \* FindNewItems: how many of the sorted ids the loop has taken
  newFeed,    \* findNewItems: the feed downloaded to the temp file and parsed
  scList,     \* consumer: the *Content published for this source (indices)
  pItems,     \* consumer: the pocket.NewItem list built for this source
  ki,         \* consumer: index of the item the publishing loop is at
  bi,         \* AddItems: the loop index i
  saved,      \* findNewItems: the bool the consumer returned
  err,        \* findNewItems: the error of this source, "nil" when none
  hcOnce,     \* startServerOnce: "unset", or the cached result "ok" / "err"
  srv,        \* the content server: "none", "serving", "failed", "closed"
  Contents,   \* Server.Contents: hashId -> index of the *Content in contents
  contents,   \* every Content made by ServeContent, in order of creation
  waiting,    \* consumer: the goroutines still blocked in <-sc.Done
  inflight,   \* GET /content/ handlers that have not returned yet (a bag)
  nFetch,     \* how many GET requests have arrived
  misses,     \* 404 answers: to a GET of a URL published before the GET arrived
              \* (plain), to one whose lookup raced with a write of the map
              \* (raced), and to a GET of an id that is not in the map (unknown)
  fed,        \* how many feed items the sources have served so far
  requests,   \* every request Client.send made: [src, urls, ok]
  totalItems,       \* main: totalItems
  totalItemErrors,  \* main: totalItemErrors
  shutdowns,  \* how often Server.Shutdown was called
  failed,     \* FindNewItems, line 74: the sources whose error was logged
  task,       \* NewServer, lines 87-94: where the goroutine around Srv.Serve is
  shutRet     \* what Server.Shutdown returned, "none" before it has

dvars == <<item, iter, lastLen>>
fvars == <<config, oldFeed, source, newItems>>
pvars == <<dryRun, randomUrl, batchConf, disk, disk0, pc, next, newFeed, scList,
           pItems, ki, bi, saved, err, hcOnce, srv, Contents, contents, waiting,
           inflight, nFetch, misses, fed, requests, totalItems,
           totalItemErrors, shutdowns, failed, task, shutRet>>
vars == <<dvars, fvars, pvars>>

\* ------------------------------------------------------------------ bounds
\* longest previous snapshot (oldFeed.Items) drawn
MaxOld == 1
\* longest freshly fetched feed (newFeed.Items) drawn
MaxNew == 2
\* feed items the sources serve in a whole run, all sources together
MaxFeed == 2
\* GET requests the content server receives in a run
MaxFetch == 2

\* ------------------------------------------------------------ value domains
NoTime == -1
ZeroTime == 0
NilFeed == [nil |-> TRUE, Items |-> <<>>]
Feed(items) == [nil |-> FALSE, Items |-> items]
Guids == {"", "g1", "g2"}
Links == {"", "l1", "l2"}
\* parsed item timestamps (seconds)
Times == {1, 2}
\* start_date of the configuration and of a source; 0 is an unset start_date.
\* The two non-zero values differ, so that which of them applies shows.
GlobalStartDates == {0, 1}
OwnStartDates == {0, 2}
SourceIds == {"a", "b"}

\* a gofeed.Item, reduced to the fields feed.go reads
FeedItem(g, l, p, u) == [GUID |-> g, Link |-> l, Published |-> p, Updated |-> u]
Candidates ==
  {FeedItem(g, l, p, u) : g \in Guids, l \in Links,
                          p \in Times \cup {NoTime}, u \in Times \cup {NoTime}}
\* entries of a stored snapshot: compareFeedItems reads only GUID and Link of them
OldEntries == {FeedItem(g, l, NoTime, NoTime) : g \in Guids, l \in Links}

RECURSIVE SeqsUpTo(_, _)
SeqsUpTo(S, n) ==
  IF n = 0 THEN {<<>>}
  ELSE LET shorter == SeqsUpTo(S, n - 1)
       IN  shorter \cup {Append(s, x) : s \in {t \in shorter : Len(t) = n - 1}, x \in S}

\* ---------------------------------------------------------------- feed.go
\* time.Time.IsZero
IsZero(t) == t = ZeroTime

\* time.Time.Before
BeforeOrEqual(t, u) == t <= u
Before(t, u) == t < u

\* FindNewItems, lines 58-62: the per-source cutoff defaults to the global one
SourceOf(cfg, sid) ==
  [Id |-> sid, UseServer |-> cfg.Sources[sid].UseServer,
   StartDate |-> IF IsZero(cfg.Sources[sid].StartDate) THEN cfg.StartDate
                 ELSE cfg.Sources[sid].StartDate]

\* a Go map[string]bool lookup: a missing key reads false
Lookup(m, k) == IF k \in DOMAIN m THEN m[k] ELSE FALSE

\* compareFeedItems, lines 137-144: guids[item.GUID] = item.GUID != ""
guidsOf(feed) ==
  IF feed.nil THEN [k \in {} |-> FALSE]
  ELSE [k \in {feed.Items[j].GUID : j \in 1..Len(feed.Items)} |-> k # ""]

\* compareFeedItems, lines 137-144: links[item.Link] = item.Link != ""
linksOfGuids(feed) ==
  IF feed.nil THEN [k \in {} |-> FALSE]
  ELSE [k \in {feed.Items[j].GUID : j \in 1..Len(feed.Items)} |-> k # ""]
linksOf(feed) ==
  IF feed.nil THEN [k \in {} |-> FALSE]
  ELSE [k \in {feed.Items[j].Link : j \in 1..Len(feed.Items)} |-> k # ""]

\* buildDocument: the HTML rendered from the item (title and description are
\* not modelled; the document is identified by the item it was rendered from)
buildDocument(it) == <<"html", it.GUID, it.Link>>
\* Item.Document left at its zero value, the empty string
NoDocument == <<>>

\* compareFeedItems, lines 153-158: the id of the output item
ItemIdGuidFirst(it) == IF it.GUID # "" THEN it.GUID ELSE it.Link
ItemId(it) == it.Link

\* compareFeedItems, lines 160-174: which parsed time the cutoff looks at,
\* NoTime when the item carries neither
CheckedTimeUpdatedFirst(it) ==
  IF it.Updated # NoTime THEN it.Updated ELSE it.Published
CheckedTime(it) ==
  IF it.Published # NoTime THEN it.Published ELSE it.Updated

\* compareFeedItems, lines 160-174: the `continue` of the start-date check
TooOld(it, src) ==
  CheckedTime(it) # NoTime /\ Before(CheckedTime(it), src.StartDate)

\* compareFeedItems, lines 165, 172: output.Time, the zero time when unset
OutputTime(it) ==
  IF CheckedTime(it) = NoTime THEN ZeroTime ELSE CheckedTime(it)

\* compareFeedItems, lines 176-179
GuidSeenNever(it, guids) == FALSE
GuidSeen(it, guids) == it.GUID # "" /\ Lookup(guids, it.GUID)

\* compareFeedItems, lines 180-183
LinkSeenNever(it, links) == FALSE
LinkSeen(it, links) == Lookup(links, it.Link)

\* compareFeedItems, lines 148-151
NoLinkKept(it) == FALSE
NoLink(it) == it.Link = ""

\* compareFeedItems, lines 153-158 and 185-187
OutputItem(it, src) ==
  [Id |-> ItemId(it), Url |-> it.Link, Time |-> OutputTime(it),
   Tags |-> <<src.Id>>,
   Document |-> IF src.UseServer THEN buildDocument(it) ELSE NoDocument]

\* compareFeedItems, lines 146-190: one iteration of the loop; what it appends
compareItem(it, guids, links, src) ==
  IF NoLink(it) THEN <<>>
  ELSE IF TooOld(it, src) THEN <<>>
  ELSE IF GuidSeen(it, guids) THEN <<>>
  ELSE IF LinkSeen(it, links) THEN <<>>
  ELSE <<OutputItem(it, src)>>

RECURSIVE compareLoopBackwards(_, _, _, _)
compareLoopBackwards(items, guids, links, src) ==
  IF items = <<>> THEN <<>>
  ELSE compareLoopBackwards(Tail(items), guids, links, src)
         \o compareItem(Head(items), guids, links, src)
RECURSIVE compareLoop(_, _, _, _)
compareLoop(items, guids, links, src) ==
  IF items = <<>> THEN <<>>
  ELSE compareItem(Head(items), guids, links, src)
         \o compareLoop(Tail(items), guids, links, src)

\* compareFeedItems, lines 126-193
compareFeedItems(old, new, src) ==
  compareLoop(new.Items, guidsOf(old), linksOf(old), src)

\* ------------------------------------------------------ the run, at rest
NoMisses == [plain |-> 0, raced |-> 0, unknown |-> 0]
NoSnapshot == [exists |-> FALSE, Items |-> <<>>]
SnapshotPartial(items) == [exists |-> TRUE, Items |-> SubSeq(items, 1, Len(items) - 1)]
Snapshot(items) == [exists |-> TRUE, Items |-> items]

\* the state of the run before main has done anything
PipelineIdle ==
  /\ dryRun = FALSE /\ randomUrl = FALSE /\ batchConf = 0
  /\ disk = [s \in {} |-> NoSnapshot] /\ disk0 = disk
  /\ pc = "idle" /\ next = 0 /\ newFeed = NilFeed
  /\ scList = <<>> /\ pItems = <<>> /\ ki = 0 /\ bi = 0
  /\ saved = FALSE /\ err = "nil"
  /\ hcOnce = "unset" /\ srv = "none"
  /\ Contents = [h \in {} |-> 0] /\ contents = <<>>
  /\ waiting = {} /\ inflight = EmptyBag /\ nFetch = 0 /\ misses = NoMisses
  /\ fed = 0
  /\ requests = <<>> /\ totalItems = 0 /\ totalItemErrors = 0 /\ shutdowns = 0
  /\ failed = {} /\ task = "none" /\ shutRet = "none"

\* ------------------------------------------------- compareFeedItems, stepwise
\* The inputs of compareFeedItems are drawn here: any configuration of one
\* source, any previous snapshot (absent, empty, or up to MaxOld entries).
\* The items of the new feed are drawn one per iteration of the loop.
DiffSource == "a"
NoItem == FeedItem("", "", NoTime, NoTime)

InitDiff ==
  /\ config \in [StartDate : GlobalStartDates,
                  Sources : [{DiffSource} -> [UseServer : BOOLEAN, StartDate : OwnStartDates]]]
  /\ oldFeed \in {NilFeed} \cup {Feed(s) : s \in SeqsUpTo(OldEntries, MaxOld)}
  /\ source = SourceOf(config, DiffSource)
  /\ item = NoItem
  /\ iter = 0
  /\ lastLen = 0
  /\ newItems = <<>>
  /\ PipelineIdle

\* compareFeedItems, lines 146-190: the next item of newFeed.Items goes
\* through the loop body
DiffIter ==
  /\ iter < MaxNew
  /\ \E c \in Candidates :
       /\ item' = c
       /\ newItems' = newItems \o compareItem(c, guidsOf(oldFeed), linksOf(oldFeed), source)
  /\ iter' = iter + 1
  /\ lastLen' = Len(newItems)
  /\ UNCHANGED <<config, oldFeed, source, pvars>>

NextDiff == DiffIter
SpecDiff == InitDiff /\ [][NextDiff]_vars

\* ------------------------------------------------ properties of the diff
\* an iteration of the loop has run on `item`
Ran == iter > 0
\* the last iteration appended to newItems
Appended == Len(newItems) > lastLen
LastItem == newItems[Len(newItems)]
PrevEntries == {oldFeed.Items[j] : j \in 1..Len(oldFeed.Items)}
\* the candidate's non-empty GUID is the GUID of a record of the previous snapshot
GuidMatches == item.GUID # "" /\ \E e \in PrevEntries : e.GUID = item.GUID
\* the candidate's link is the link of a record of the previous snapshot
LinkMatches == \E e \in PrevEntries : e.Link = item.Link
\* published when present, otherwise updated (NoTime when neither)
Effective == IF item.Published # NoTime THEN item.Published ELSE item.Updated
BeforeCutoff == Effective # NoTime /\ Effective < source.StartDate

\* C1: no item is returned whose non-empty GUID is the GUID of an entry of the
\* previous snapshot, nor one whose link is the link of an entry of it.
C1_NoSeenItemReturned ==
  Ran /\ Appended => ~GuidMatches /\ ~LinkMatches
\* an item with a GUID is returned although the snapshot has GUIDs and links
C1_Witness ==
  /\ Ran /\ Appended /\ item.GUID # ""
  /\ \E e \in PrevEntries : e.GUID # "" /\ e.Link # ""

\* C2 as stated: a candidate is in the output iff neither its GUID nor its
\* link matches a record of the previous snapshot and its effective timestamp
\* is not before the cutoff.
C2_AsStated ==
  Ran => (Appended <=> ~GuidMatches /\ ~LinkMatches /\ ~BeforeCutoff)
\* C2 amended: a candidate WITH A NON-EMPTY LINK is in the output iff neither
\* its GUID nor its link matches a record of the previous snapshot and its
\* effective timestamp is not before the cutoff, and then it is appended
\* exactly once for this occurrence; a candidate with an empty link is never
\* in the output.
C2_NewIffUnseenAndRecent ==
  Ran =>
    IF item.Link = "" THEN Len(newItems) = lastLen
    ELSE IF ~GuidMatches /\ ~LinkMatches /\ ~BeforeCutoff
         THEN Len(newItems) = lastLen + 1 /\ LastItem.Url = item.Link
         ELSE Len(newItems) = lastLen
\* the same candidate occurs twice in the feed and is appended both times
C2_Witness ==
  /\ iter = 2 /\ Len(newItems) = 2 /\ newItems[1] = newItems[2]
  /\ PrevEntries # {}

\* C8 as stated: the id of an emitted item is the GUID when the GUID is
\* non-empty and the link only when the GUID is empty; url is the link, tags
\* are [source id].
C8_AsStated ==
  Ran /\ Appended =>
    /\ item.GUID # "" => LastItem.Id = item.GUID
    /\ LastItem.Id = item.Link => item.GUID = ""
    /\ LastItem.Url = item.Link
    /\ LastItem.Tags = <<source.Id>>
\* C8 amended: the id of an emitted item is the candidate's link, whether or
\* not the GUID is empty; url is the link, tags are [source id].
C8_IdIsLink ==
  Ran /\ Appended =>
    /\ LastItem.Id = item.Link
    /\ LastItem.Url = item.Link
    /\ LastItem.Tags = <<source.Id>>
\* an item with a non-empty GUID is emitted
C8_Witness == Ran /\ Appended /\ item.GUID # "" /\ LastItem.Id # item.GUID

\* C9: a candidate timestamped exactly at the cutoff is retained unless
\* deduplicated, one timestamped a second before it is excluded; the cutoff is
\* the source's own StartDate when set and the global StartDate otherwise.
C9_CutoffBoundary ==
  /\ source.StartDate =
       IF config.Sources[DiffSource].StartDate # ZeroTime
       THEN config.Sources[DiffSource].StartDate ELSE config.StartDate
  /\ Ran =>
       /\ Effective = source.StartDate /\ item.Link # "" /\ ~GuidMatches /\ ~LinkMatches
            => Appended
       /\ Effective # NoTime /\ Effective = source.StartDate - 1 => ~Appended
\* a candidate timestamped at the global cutoff is retained
C9_Witness ==
  /\ Ran /\ Appended /\ Effective = source.StartDate
  /\ config.Sources[DiffSource].StartDate = ZeroTime /\ config.StartDate # ZeroTime

\* C10: the effective timestamp is the published time when present, else the
\* updated time; a candidate with neither is never excluded by the cutoff and
\* is emitted with the zero time; with a published time, the updated time has
\* no part in the cutoff decision.
C10_EffectiveTimestamp ==
  Ran =>
    /\ Appended =>
         LastItem.Time = IF item.Published # NoTime THEN item.Published
                         ELSE IF item.Updated # NoTime THEN item.Updated
                         ELSE ZeroTime
    /\ item.Published = NoTime /\ item.Updated = NoTime =>
         (Appended <=> item.Link # "" /\ ~GuidMatches /\ ~LinkMatches)
    /\ item.Published # NoTime =>
         (Appended <=> /\ item.Link # "" /\ ~GuidMatches /\ ~LinkMatches
                       /\ ~(item.Published < source.StartDate))
\* a candidate without any timestamp is emitted under a non-zero cutoff
C10_Witness ==
  /\ Ran /\ Appended /\ item.Published = NoTime /\ item.Updated = NoTime
  /\ source.StartDate # ZeroTime /\ LastItem.Time = ZeroTime

\* ------------------------------------------------------------- the run
\* The items the sources of a run serve; a feed may hold an item twice.
ItemA == FeedItem("g1", "l1", NoTime, NoTime)
ItemB == FeedItem("g2", "l2", NoTime, NoTime)
PipeItems == {ItemA, ItemB}
PipeFeeds == SeqsUpTo(PipeItems, MaxFeed)

Min(a, b) == IF a < b THEN a ELSE b

\* FindNewItems, lines 49-54: the ids of the sources, sorted (sort.Strings)
IdOrder == <<"a", "b">>
IdOrderReversed == <<"b", "a">>
sortedIdsUnsorted(cfg) == SelectSeq(IdOrderReversed, LAMBDA x : x \in DOMAIN cfg.Sources)
sortedIds(cfg) == SelectSeq(IdOrder, LAMBDA x : x \in DOMAIN cfg.Sources)

\* readOldFeed: an absent file reads as nil, nil
readOldFeed(file) == IF file.exists THEN Feed(file.Items) ELSE NilFeed

\* AddItems, lines 58-61
DefaultBatch == 20
BatchSize(b) == IF b <= 0 THEN DefaultBatch ELSE b

\* ServeContent, lines 101-106: md5 of the id, salted with RandString(8) when
\* RandomUrl is set.  md5 is taken to be injective and the salt of a publish
\* to differ from every earlier one (52^8 values): salt n for the n-th Content.
hashId(id, random, n) == IF random THEN <<id, n>> ELSE <<id, 0>>
UnknownHash == <<"unknown", 0>>

\* ServeContent, line 107: baseUrl/content/<hashId>.html
FullUrl(h) == <<"content", h[1], h[2]>>
\* a URL that is the item's own link
LinkUrl(l) == <<"link", l, 0>>

\* ServeContent, lines 109-114: Done is a channel of capacity DoneCap
DoneCap == 1
NewContent(id, doc, h, sid) ==
  [Id |-> id, Document |-> doc, hash |-> h, Done |-> 0,
   src |-> sid, served |-> 0, fired |-> 0, received |-> 0]

\* handler, lines 81-84: the send of the select goes through when the buffer
\* of Done has room, otherwise the default branch runs
CanSendAlways(c) == TRUE
CanSendUnbuffered(c) == c.Done < 0
CanSend(c) == c.Done < DoneCap

\* main, lines 152-157
PocketItem(url, it) == [Url |-> url, Time |-> it.Time, Tags |-> it.Tags]

\* main, lines 128-131: what the consumer returns in dry-run mode
DryRunSaved == [saved |-> TRUE, err |-> "nil"]
DryRunResult == [saved |-> FALSE, err |-> "nil"]

\* main, lines 160-163 and 175: what the consumer returns
AddFailedSaved == [saved |-> TRUE, err |-> "nil"]
AddFailedResult == [saved |-> FALSE, err |-> "addItems"]
FetchedAllUnsaved == [saved |-> FALSE, err |-> "nil"]
FetchedAllResult == [saved |-> TRUE, err |-> "nil"]

\* main, lines 165-174: syncAll.Wait() returns when every goroutine has
\* received from its sc.Done
WaitOverAlways(w) == TRUE
WaitOver(w) == w = {}

\* main, lines 108-123: the state when FindNewItems is called, for the
\* configurations cfgs and the values dry of the -dry-run flag
RunInit(cfgs, dry) ==
  /\ item = NoItem /\ iter = 0 /\ lastLen = 0
  /\ config \in cfgs
  /\ oldFeed = NilFeed /\ newFeed = NilFeed /\ newItems = <<>>
  /\ source = SourceOf(config, IdOrder[1])
  /\ dryRun \in dry /\ randomUrl \in BOOLEAN /\ batchConf \in {0, 1}
  /\ \E file \in {NoSnapshot, Snapshot(<<ItemA>>)} : disk = [s \in SourceIds |-> file]
  /\ disk0 = disk
  /\ pc = "loop" /\ next = 0
  /\ scList = <<>> /\ pItems = <<>> /\ ki = 0 /\ bi = 0
  /\ saved = FALSE /\ err = "nil"
  /\ hcOnce = "unset" /\ srv = "none"
  /\ Contents = [h \in {} |-> 0] /\ contents = <<>>
  /\ waiting = {} /\ inflight = EmptyBag /\ nFetch = 0 /\ misses = NoMisses
  /\ fed = 0
  /\ requests = <<>> /\ totalItems = 0 /\ totalItemErrors = 0 /\ shutdowns = 0
  /\ failed = {} /\ task = "none" /\ shutRet = "none"

\* a run over two sources, rendered or not, dry or not
Init ==
  RunInit([StartDate : {ZeroTime},
           Sources : [SourceIds -> [UseServer : BOOLEAN, StartDate : {ZeroTime}]]],
          BOOLEAN)

\* a run over one rendered source
InitServer ==
  RunInit([StartDate : {ZeroTime},
           Sources : [{IdOrder[1]} -> [UseServer : {TRUE}, StartDate : {ZeroTime}]]],
          {FALSE})

\* a run over a configuration of one source, rendered or not, dry or not
InitSource ==
  RunInit([StartDate : {ZeroTime},
           Sources : [{IdOrder[1]} -> [UseServer : BOOLEAN, StartDate : {ZeroTime}]]],
          BOOLEAN)

svars == <<hcOnce, srv, Contents, contents, inflight, nFetch, misses>>
cfgvars == <<config, dryRun, randomUrl, batchConf, disk0, dvars>>
\* what ReadNewFeed alone changes
evars == <<fed>>
\* what the end of a source alone changes
lvars == <<failed>>
\* the goroutine of NewServer and the result of Shutdown
tvars == <<task, shutRet>>

\* FindNewItems, lines 72-75: the error of a source is logged and the loop
\* goes on to the next id
LoopStopsOnError(e) == e = "nil"
LoopGoesOn(e) == TRUE

\* FindNewItems, lines 57-62 and 178: the loop takes the next id, or ends
NextSource ==
  /\ pc = "loop"
  /\ IF next < Len(sortedIds(config)) /\ LoopGoesOn(err)
     THEN /\ next' = next + 1
          /\ source' = SourceOf(config, sortedIds(config)[next + 1])
          /\ pc' = "readOld"
     ELSE /\ pc' = "shutdown"
          /\ UNCHANGED <<next, source>>
  /\ oldFeed' = NilFeed /\ newFeed' = NilFeed /\ newItems' = <<>>
  /\ scList' = <<>> /\ pItems' = <<>> /\ ki' = 0 /\ bi' = 0
  /\ saved' = FALSE /\ err' = "nil"
  /\ UNCHANGED <<cfgvars, tvars, lvars, evars, svars, disk, waiting, requests, totalItems,
                 totalItemErrors, shutdowns>>

\* findNewItems, lines 85-89: the old feed is read, or reading it fails
ReadOldFeed ==
  /\ pc = "readOld"
  /\ \/ /\ oldFeed' = readOldFeed(disk[source.Id])
        /\ pc' = "readNew"
        /\ UNCHANGED <<err, failed>>
     \/ /\ disk[source.Id].exists
        /\ err' = "readOld"
        /\ pc' = "loop"
        /\ failed' = failed \cup {source.Id}
        /\ UNCHANGED oldFeed
  /\ UNCHANGED <<cfgvars, tvars, evars, svars, source, newItems, disk, next, newFeed,
                 scList, pItems, ki, bi, saved, waiting, requests, totalItems,
                 totalItemErrors, shutdowns>>

\* findNewItems, lines 91-103: the new feed is downloaded to the temp file and
\* parsed, or one of the two fails
ReadNewFeed ==
  /\ pc = "readNew"
  /\ \/ /\ \E f \in PipeFeeds :
             /\ fed + Len(f) <= MaxFeed
             /\ newFeed' = Feed(f)
             /\ fed' = fed + Len(f)
        /\ pc' = "compare"
        /\ UNCHANGED <<err, failed>>
     \/ /\ err' = "readNew"
        /\ pc' = "loop"
        /\ failed' = failed \cup {source.Id}
        /\ UNCHANGED <<newFeed, fed>>
  /\ UNCHANGED <<cfgvars, tvars, svars, oldFeed, source, newItems, disk, next,
                 scList, pItems, ki, bi, saved, waiting, requests, totalItems,
                 totalItemErrors, shutdowns>>

\* findNewItems, lines 105-106
Compare ==
  /\ pc = "compare"
  /\ newItems' = compareFeedItems(oldFeed, newFeed, source)
  /\ pc' = "consume"
  /\ UNCHANGED <<cfgvars, tvars, lvars, evars, svars, oldFeed, source, disk, next, newFeed,
                 scList, pItems, ki, bi, saved, err, waiting, requests,
                 totalItems, totalItemErrors, shutdowns>>

\* the consumer with totalItems counted after the dry-run return
ConsumeBeginDryUncounted ==
  /\ pc = "consume"
  /\ IF dryRun
     THEN /\ saved' = DryRunResult.saved /\ err' = DryRunResult.err
          /\ pc' = "consumed"
          /\ UNCHANGED <<ki, totalItems>>
     ELSE /\ ki' = 1
          /\ pc' = "publish"
          /\ totalItems' = totalItems + Len(newItems)
          /\ UNCHANGED <<saved, err>>
  /\ UNCHANGED <<cfgvars, tvars, lvars, evars, svars, oldFeed, source, newItems, disk, next, newFeed,
                 scList, pItems, bi, waiting, requests, totalItemErrors, shutdowns>>

\* main, lines 125-136: the consumer is entered
ConsumeBegin ==
  /\ pc = "consume"
  /\ totalItems' = totalItems + Len(newItems)
  /\ IF dryRun
     THEN /\ saved' = DryRunResult.saved /\ err' = DryRunResult.err
          /\ pc' = "consumed"
          /\ UNCHANGED ki
     ELSE /\ ki' = 1
          /\ pc' = "publish"
          /\ UNCHANGED <<saved, err>>
  /\ UNCHANGED <<cfgvars, tvars, lvars, evars, svars, oldFeed, source, newItems, disk, next, newFeed,
                 scList, pItems, bi, waiting, requests, totalItemErrors, shutdowns>>

\* startServerOnce without the Once: a failed start is tried again
StartServerRetry ==
  /\ pc = "publish" /\ ki <= Len(newItems)
  /\ source.UseServer
  /\ hcOnce \in {"unset", "err"}
  /\ \/ hcOnce' = "ok" /\ srv' = "serving" /\ task' = "serve"
     \/ hcOnce' = "err" /\ UNCHANGED <<srv, task>>
  /\ UNCHANGED <<cfgvars, shutRet, lvars, evars, fvars, disk, pc, next, newFeed, scList, pItems, ki, bi,
                 saved, err, Contents, contents, waiting, inflight, nFetch,
                 misses, requests, totalItems, totalItemErrors, shutdowns>>

\* main, lines 117-119 and 143, NewServer: the first call of startServerOnce
\* starts the server, or fails to (bad base URL, address in use)
StartServer ==
  /\ pc = "publish" /\ ki <= Len(newItems)
  /\ source.UseServer
  /\ hcOnce = "unset"
  /\ \/ hcOnce' = "ok" /\ srv' = "serving" /\ task' = "serve"
     \/ hcOnce' = "err" /\ UNCHANGED <<srv, task>>
  /\ UNCHANGED <<cfgvars, shutRet, lvars, evars, fvars, disk, pc, next, newFeed, scList, pItems, ki, bi,
                 saved, err, Contents, contents, waiting, inflight, nFetch,
                 misses, requests, totalItems, totalItemErrors, shutdowns>>

\* main, lines 137-158: one iteration of the loop over the new items, up to
\* the point where ServeContent is about to write server.Contents (line 115)
PublishItem ==
  /\ pc = "publish" /\ ki <= Len(newItems)
  /\ IF source.UseServer
     THEN /\ hcOnce # "unset"
          /\ IF hcOnce = "err"
             THEN /\ saved' = FALSE /\ err' = "startServer"
                  /\ pc' = "consumed"
                  /\ UNCHANGED <<contents, pItems, ki>>
             ELSE LET it == newItems[ki]
                      n == Len(contents) + 1
                      h == hashId(it.Id, randomUrl, n)
                  IN  /\ contents' = Append(contents,
                                            NewContent(it.Id, it.Document, h, source.Id))
                      /\ pc' = "serveContent"
                      /\ UNCHANGED <<saved, err, pItems, ki>>
     ELSE /\ pItems' = Append(pItems, PocketItem(LinkUrl(newItems[ki].Url), newItems[ki]))
          /\ ki' = ki + 1
          /\ UNCHANGED <<contents, saved, err, pc>>
  /\ UNCHANGED <<cfgvars, tvars, lvars, evars, fvars, disk, next, newFeed, bi, hcOnce, srv, waiting,
                 Contents, scList, inflight, nFetch, misses, requests, totalItems,
                 totalItemErrors, shutdowns>>

\* ServeContent, lines 115-117, and main, lines 149-157: the write of
\* server.Contents[hashId], which replaces an entry with the same hashId
ServeContentStore ==
  /\ pc = "serveContent"
  /\ LET n == Len(contents)
         h == contents[n].hash
     IN  /\ Contents' = [x \in DOMAIN Contents \cup {h} |->
                           IF x = h THEN n ELSE Contents[x]]
         /\ scList' = Append(scList, n)
         /\ pItems' = Append(pItems, PocketItem(FullUrl(h), newItems[ki]))
  /\ ki' = ki + 1
  /\ pc' = "publish"
  /\ UNCHANGED <<cfgvars, tvars, lvars, evars, fvars, disk, next, newFeed, bi, hcOnce, srv, waiting,
                 contents, saved, err, inflight, nFetch, misses, requests,
                 totalItems, totalItemErrors, shutdowns>>

\* main, line 160: the loop is over, AddItems is called
CallAddItems ==
  /\ pc = "publish" /\ ki > Len(newItems)
  /\ pc' = "addItems" /\ bi' = 0
  /\ UNCHANGED <<cfgvars, tvars, lvars, evars, svars, fvars, disk, next, newFeed, scList, pItems, ki,
                 saved, err, waiting, requests, totalItems, totalItemErrors,
                 shutdowns>>

\* AddItems, lines 83-85, and send, lines 109-115: a batch that was not
\* answered 200 ends AddItems with an error
SendFailedNever(ok) == FALSE
SendFailed(ok) == ~ok

\* main, lines 165-172: AddItems returned nil, one goroutine per Content
\* starts waiting
AddItemsOk ==
  /\ pc' = "wait"
  /\ waiting' = 1..Len(scList)
  /\ UNCHANGED <<saved, err, totalItemErrors>>

\* AddItems, lines 54-89, with main, lines 160-163: nothing is sent for an
\* empty list; otherwise the batch at i is sent and accepted or rejected
AddItems ==
  /\ pc = "addItems"
  /\ IF Len(pItems) = 0
     THEN /\ AddItemsOk
          /\ UNCHANGED <<bi, requests>>
     ELSE LET batch == BatchSize(batchConf)
              last == Min(bi + batch, Len(pItems))
              bItems == SubSeq(pItems, bi + 1, last)
          IN  \E ok \in BOOLEAN :
                /\ requests' = Append(requests,
                     [src |-> source.Id, ok |-> ok,
                      urls |-> [j \in 1..Len(bItems) |-> bItems[j].Url]])
                /\ IF SendFailed(ok)
                   THEN /\ totalItemErrors' = totalItemErrors + Len(newItems)
                        /\ saved' = AddFailedResult.saved
                        /\ err' = AddFailedResult.err
                        /\ pc' = "consumed"
                        /\ UNCHANGED <<bi, waiting>>
                   ELSE IF bi + batch < Len(pItems)
                        THEN /\ bi' = bi + batch
                             /\ UNCHANGED <<pc, waiting, saved, err, totalItemErrors>>
                        ELSE /\ AddItemsOk
                             /\ UNCHANGED bi
  /\ UNCHANGED <<cfgvars, tvars, lvars, evars, svars, fvars, disk, next, newFeed, scList, pItems, ki,
                 totalItems, shutdowns>>

\* main, lines 168-171: a waiting goroutine receives from its sc.Done
WaiterReceive(j) ==
  /\ pc = "wait" /\ j \in waiting
  /\ contents[scList[j]].Done > 0
  /\ contents' = [contents EXCEPT ![scList[j]].Done = @ - 1,
                                  ![scList[j]].received = @ + 1]
  /\ waiting' = waiting \ {j}
  /\ UNCHANGED <<cfgvars, tvars, lvars, evars, fvars, disk, pc, next, newFeed, scList, pItems, ki, bi,
                 saved, err, hcOnce, srv, Contents, inflight, nFetch, misses,
                 requests, totalItems, totalItemErrors, shutdowns>>

\* main, lines 174-175: syncAll.Wait() returns and the consumer with it
WaitReturn ==
  /\ pc = "wait" /\ WaitOver(waiting)
  /\ saved' = FetchedAllResult.saved /\ err' = FetchedAllResult.err
  /\ pc' = "consumed"
  /\ UNCHANGED <<cfgvars, tvars, lvars, evars, svars, fvars, disk, next, newFeed, scList, pItems, ki,
                 bi, waiting, requests, totalItems, totalItemErrors, shutdowns>>

\* findNewItems, lines 110-123, FindNewItems, lines 72-75: an error of the
\* consumer ends the source; the temp file is renamed over feed.xml when the
\* consumer said saved, which may fail
FinishSource ==
  /\ pc = "consumed"
  /\ IF err # "nil" THEN UNCHANGED <<disk, err>>
     ELSE IF saved
          THEN \/ /\ disk' = [disk EXCEPT ![source.Id] = Snapshot(newFeed.Items)]
                  /\ UNCHANGED err
               \/ /\ err' = "rename"
                  /\ UNCHANGED disk
          ELSE UNCHANGED <<disk, err>>
  /\ failed' = IF err' # "nil" THEN failed \cup {source.Id} ELSE failed
  /\ pc' = "loop"
  /\ UNCHANGED <<cfgvars, tvars, evars, svars, fvars, next, newFeed, scList, pItems, ki, bi,
                 saved, waiting, requests, totalItems, totalItemErrors, shutdowns>>

\* main, line 178: hc is non-nil when startServerOnce returned a server
ServerStartedAlways(h) == TRUE
ServerStarted(h) == h = "ok"

\* main, lines 178-187, and Shutdown, lines 121-122: with a server, Shutdown
\* is called and calls Srv.Shutdown, which stops the listener; without one the
\* summary is printed
Shutdown ==
  /\ pc = "shutdown"
  /\ IF ServerStarted(hcOnce)
     THEN /\ srv' = "closed"
          /\ shutdowns' = shutdowns + 1
          /\ pc' = "srvShutdown"
     ELSE /\ pc' = "done"
          /\ UNCHANGED <<srv, shutdowns>>
  /\ UNCHANGED <<cfgvars, tvars, lvars, evars, fvars, disk, next, newFeed, scList, pItems,
                 ki, bi, saved, err, hcOnce, Contents, contents, waiting, inflight,
                 nFetch, misses, requests, totalItems, totalItemErrors>>

\* Shutdown, lines 122-124: Srv.Shutdown returns once the handlers have
\* returned; with an error of closing the listener Shutdown returns at once
SrvShutdownReturns ==
  /\ pc = "srvShutdown"
  /\ inflight = EmptyBag
  /\ \/ pc' = "recvStopped" /\ UNCHANGED shutRet
     \/ pc' = "done" /\ shutRet' = "shutdownErr"
  /\ UNCHANGED <<cfgvars, task, lvars, evars, fvars, disk, next, newFeed, scList, pItems,
                 ki, bi, saved, err, hcOnce, srv, Contents, contents, waiting, inflight,
                 nFetch, misses, requests, totalItems, totalItemErrors, shutdowns>>

\* Shutdown, line 127: the receive from hc.stopped gets nil from the closed
\* channel, or the error the goroutine is sending (line 91), which then
\* closes the channel and ends
RecvStopped ==
  /\ pc = "recvStopped"
  /\ \/ task = "exited" /\ shutRet' = "nil" /\ UNCHANGED task
     \/ task = "send" /\ shutRet' = "serveErr" /\ task' = "exited"
  /\ pc' = "done"
  /\ UNCHANGED <<cfgvars, lvars, evars, fvars, disk, next, newFeed, scList, pItems,
                 ki, bi, saved, err, hcOnce, srv, Contents, contents, waiting, inflight,
                 nFetch, misses, requests, totalItems, totalItemErrors, shutdowns>>

\* NewServer, lines 88-91: Srv.Serve returns an error other than
\* ErrServerClosed; the goroutine blocks in the send on server.stopped
ServeFails ==
  /\ pc # "fatal"
  /\ task = "serve" /\ srv = "serving"
  /\ task' = "send" /\ srv' = "failed"
  /\ UNCHANGED <<cfgvars, shutRet, lvars, evars, fvars, disk, pc, next, newFeed, scList,
                 pItems, ki, bi, saved, err, hcOnce, Contents, contents, waiting,
                 inflight, nFetch, misses, requests, totalItems, totalItemErrors,
                 shutdowns>>

\* NewServer, lines 88-93: after Srv.Shutdown was called Srv.Serve returns
\* ErrServerClosed and the goroutine closes server.stopped
ServeTaskExit ==
  /\ pc # "fatal"
  /\ task = "serve" /\ srv = "closed"
  /\ task' = "exited"
  /\ UNCHANGED <<cfgvars, shutRet, lvars, evars, fvars, disk, pc, next, newFeed, scList,
                 pItems, ki, bi, saved, err, hcOnce, srv, Contents, contents, waiting,
                 inflight, nFetch, misses, requests, totalItems, totalItemErrors,
                 shutdowns>>

\* the hashIds of the URLs made so far
Published == {contents[i].hash : i \in 1..Len(contents)}

\* handler, line 73: server.Contents[hashId]; the nil *Content of a missing
\* key is 0
NilContent == 0
ContentOfAny(m, h) == IF h \in DOMAIN m THEN m[h] ELSE 1
ContentOf(m, h) == IF h \in DOMAIN m THEN m[h] ELSE NilContent

\* handler, lines 64-77: a GET /content/<h>.html arrives and is looked up in
\* server.Contents; 404 for a missing id
HandlerLookup(h) ==
  /\ pc # "fatal"
  /\ srv = "serving"
  /\ nFetch < MaxFetch
  /\ nFetch' = nFetch + 1
  /\ IF ContentOf(Contents, h) # NilContent
     THEN /\ inflight' = inflight (+)
               SetToBag({[hash |-> h, content |-> ContentOf(Contents, h)]})
          /\ UNCHANGED misses
     ELSE /\ misses' = IF h \in Published /\ pc # "serveContent"
                       THEN [misses EXCEPT !.plain = @ + 1]
                       ELSE [misses EXCEPT !.unknown = @ + 1]
          /\ UNCHANGED inflight
  /\ UNCHANGED <<cfgvars, tvars, lvars, evars, fvars, disk, pc, next, newFeed, scList, pItems, ki, bi,
                 saved, err, hcOnce, srv, Contents, contents, waiting,
                 requests, totalItems, totalItemErrors, shutdowns>>

\* handler, line 73, while ServeContent is at line 115: the read of the map is
\* not synchronised with the write of it, and may miss an entry that is
\* there (404)
RacedLookupMiss(h) ==
  /\ pc = "serveContent"
  /\ srv = "serving"
  /\ nFetch < MaxFetch
  /\ h \in DOMAIN Contents
  /\ nFetch' = nFetch + 1
  /\ misses' = [misses EXCEPT !.raced = @ + 1]
  /\ UNCHANGED <<cfgvars, tvars, lvars, evars, fvars, disk, pc, next, newFeed, scList, pItems, ki, bi,
                 saved, err, hcOnce, srv, Contents, contents, waiting, inflight,
                 requests, totalItems, totalItemErrors, shutdowns>>

\* handler, line 73, while ServeContent is at line 115: the runtime may end
\* the process ("fatal error: concurrent map read and map write")
RacedLookupFatal(h) ==
  /\ pc = "serveContent"
  /\ srv = "serving"
  /\ nFetch < MaxFetch
  /\ nFetch' = nFetch + 1
  /\ pc' = "fatal"
  /\ UNCHANGED <<cfgvars, tvars, lvars, evars, fvars, disk, next, newFeed, scList, pItems, ki, bi,
                 saved, err, hcOnce, srv, Contents, contents, waiting, inflight,
                 misses, requests, totalItems, totalItemErrors, shutdowns>>

\* handler, lines 79-84: content.Document is written with status 200 (counted
\* in served) and the non-blocking send on content.Done is tried
HandlerServe(r) ==
  /\ pc # "fatal"
  /\ BagIn(r, inflight)
  /\ LET c == contents[r.content]
     IN  /\ contents' =
              IF CanSend(c)
              THEN [contents EXCEPT ![r.content].served = @ + 1,
                                    ![r.content].Done = @ + 1,
                                    ![r.content].fired = @ + 1]
              ELSE [contents EXCEPT ![r.content].served = @ + 1]
         /\ UNCHANGED misses
  /\ inflight' = inflight (-) SetToBag({r})
  /\ UNCHANGED <<cfgvars, tvars, lvars, evars, fvars, disk, pc, next, newFeed, scList, pItems, ki, bi,
                 saved, err, hcOnce, srv, Contents, waiting, nFetch,
                 requests, totalItems, totalItemErrors, shutdowns>>

Next ==
  \/ NextSource
  \/ ReadOldFeed
  \/ ReadNewFeed
  \/ Compare
  \/ ConsumeBegin
  \/ StartServer
  \/ PublishItem
  \/ ServeContentStore
  \/ CallAddItems
  \/ AddItems
  \/ \E j \in waiting : WaiterReceive(j)
  \/ WaitReturn
  \/ FinishSource
  \/ Shutdown
  \/ SrvShutdownReturns
  \/ RecvStopped
  \/ ServeTaskExit
  \/ \E h \in Published \cup {UnknownHash} : HandlerLookup(h)
  \/ \E h \in Published \cup {UnknownHash} : RacedLookupMiss(h)
  \/ \E h \in Published \cup {UnknownHash} : RacedLookupFatal(h)
  \/ \E r \in BagToSet(inflight) : HandlerServe(r)

Spec == Init /\ [][Next]_vars

\* the run of one rendered source, in which Srv.Serve may fail at any time
NextServer == Next \/ ServeFails
SpecServer == InitServer /\ [][NextServer]_vars

SpecSource == InitSource /\ [][Next]_vars

\* ------------------------------------------------ properties of the run
\* compareFeedItems has run for the current source
Diffed ==
  \/ pc \in {"consume", "publish", "serveContent", "addItems", "wait", "consumed"}
  \/ pc = "loop" /\ ~newFeed.nil
\* the requests Client.send made for source s
RequestsOf(s) == {j \in 1..Len(requests) : requests[j].src = s}
\* the documents published for source s
ContentsOf(s) == {i \in 1..Len(contents) : contents[i].src = s}
\* the documents whose ServeContent has written the mapping
ContentsStored ==
  {i \in 1..Len(contents) : i < Len(contents) \/ pc # "serveContent"}
RECURSIVE UrlsSent(_, _)
UrlsSent(s, n) ==
  IF n = 0 THEN <<>>
  ELSE UrlsSent(s, n - 1) \o (IF requests[n].src = s THEN requests[n].urls ELSE <<>>)

\* C3 as stated: when the diff of a source yields no new items (not a dry run)
\* no delivery request is made and the snapshot file is left exactly as it was
\* before the run.
C3_AsStated ==
  ~dryRun /\ Diffed /\ newItems = <<>> =>
    /\ RequestsOf(source.Id) = {}
    /\ disk[source.Id] = disk0[source.Id]
\* C3 amended: when the diff of a source yields no new items (not a dry run) no
\* delivery request is made, and the snapshot file IS replaced by the freshly
\* fetched feed once the source is finished (it is as before the run until
\* then, and remains so when the rename itself fails).
C3_NoItemsNoDelivery ==
  ~dryRun /\ Diffed /\ newItems = <<>> =>
    /\ RequestsOf(source.Id) = {}
    /\ disk[source.Id] = IF pc = "loop" /\ err = "nil"
                         THEN Snapshot(newFeed.Items) ELSE disk0[source.Id]
\* a source without new items is finished and its snapshot differs from before
C3_Witness ==
  /\ ~dryRun /\ Diffed /\ newItems = <<>> /\ pc = "loop" /\ err = "nil"
  /\ disk[source.Id] # disk0[source.Id]

\* C4: if AddItems fails on any batch of a source, the snapshot of that source
\* stays identical to its value before the run, so that the same items are
\* found new when the same feed is diffed against it again.
C4_FailedDeliveryKeepsSnapshot ==
  \A s \in SourceIds :
    (\E j \in RequestsOf(s) : ~requests[j].ok) =>
      /\ disk[s] = disk0[s]
      /\ s = source.Id /\ pc = "loop" =>
           compareFeedItems(readOldFeed(disk[s]), newFeed, source) = newItems
\* the run has ended, a batch was rejected after another one was accepted
C4_Witness ==
  /\ pc = "done"
  /\ \E i, j \in 1..Len(requests) :
       i < j /\ requests[i].src = requests[j].src /\ requests[i].ok /\ ~requests[j].ok

\* C5: the snapshot of a source is replaced only after AddItems has succeeded
\* for all its new items and every document published for it in this run has
\* been fetched at least once.
C5_SaveAfterDeliveryAndPickup ==
  \A s \in SourceIds :
    disk[s] # disk0[s] =>
      /\ \A j \in RequestsOf(s) : requests[j].ok
      /\ \A i \in ContentsOf(s) : contents[i].served >= 1
      /\ s = source.Id /\ pc = "loop" =>
           UrlsSent(s, Len(requests)) = [j \in 1..Len(pItems) |-> pItems[j].Url]
\* a snapshot was replaced for a source with two published documents
C5_Witness ==
  \E s \in SourceIds :
    /\ disk[s] # disk0[s]
    /\ Cardinality(ContentsOf(s)) >= 2

C7_AsStated ==
  \A i, j \in ContentsStored :
    i < j /\ contents[i].Id = contents[j].Id =>
      /\ contents[i].hash # contents[j].hash
      /\ Contents[contents[i].hash] = i
      /\ Contents[contents[j].hash] = j

\* s is t with some of its elements left out
RECURSIVE IsSubseq(_, _)
IsSubseq(s, t) ==
  IF s = <<>> THEN TRUE
  ELSE IF t = <<>> THEN FALSE
  ELSE IF Head(s) = Head(t) THEN IsSubseq(Tail(s), Tail(t))
  ELSE IsSubseq(s, Tail(t))
\* s is the beginning of t
IsPrefix(s, t) == Len(s) <= Len(t) /\ s = SubSeq(t, 1, Len(s))
\* the links of the current feed, of the new items, and of the items for Pocket
FeedLinks == [j \in 1..Len(newFeed.Items) |-> newFeed.Items[j].Link]
ItemLinks == [j \in 1..Len(newItems) |-> newItems[j].Url]
PocketLinks == [j \in 1..Len(pItems) |-> pItems[j].Url[2]]
PocketUrls == [j \in 1..Len(pItems) |-> pItems[j].Url]

\* C11: the list compareFeedItems returns is a subsequence of the items of the
\* current feed, in the order of the feed; the items for Pocket are built and
\* sent, batch after batch, in that same order.
C11_OrderKept ==
  Diffed =>
    /\ IsSubseq(ItemLinks, FeedLinks)
    /\ IsPrefix(PocketLinks, ItemLinks)
    /\ IsPrefix(UrlsSent(source.Id, Len(requests)), PocketUrls)
\* two different new items of a source were sent in two batches
C11_Witness ==
  /\ Diffed /\ Len(newItems) = 2 /\ newItems[1].Url # newItems[2].Url
  /\ Cardinality(RequestsOf(source.Id)) = 2
  /\ \A j \in RequestsOf(source.Id) : requests[j].ok

\* C12: in dry-run mode nothing is sent to Pocket, no document is published,
\* the content server is not started, no snapshot is replaced (the diff of the
\* same feed gives the same items again), and the new items of every source
\* are still added to totalItems.
C12_DryRunInert ==
  dryRun =>
    /\ requests = <<>>
    /\ contents = <<>> /\ DOMAIN Contents = {}
    /\ hcOnce = "unset" /\ srv = "none"
    /\ disk = disk0
    /\ Diffed /\ pc \in {"consumed", "loop"} =>
         /\ compareFeedItems(readOldFeed(disk[source.Id]), newFeed, source) = newItems
         /\ totalItems >= Len(newItems)
         /\ next = 1 => totalItems = Len(newItems)
\* a dry run has ended that found two new items, with a rendered source
C12_Witness ==
  /\ dryRun /\ pc = "done" /\ totalItems = 2
  /\ \E s \in SourceIds : config.Sources[s].UseServer

\* FindNewItems has returned
RunOver == pc \in {"shutdown", "srvShutdown", "recvStopped", "done"}

\* C13: a source whose fetch, parse or delivery failed keeps its snapshot and
\* sends and publishes nothing more; the loop still takes every other source,
\* and the diff of each source is the one of its own feed against its own
\* snapshot from before the run.
C13_FailureIsolated ==
  /\ [](/\ \A s \in failed : disk[s] = disk0[s]
        /\ \A s \in SourceIds : \A j, k \in RequestsOf(s) : ~requests[j].ok => k <= j
        /\ RunOver => next = Len(sortedIds(config))
        /\ Diffed =>
             newItems = compareFeedItems(readOldFeed(disk0[source.Id]), newFeed, source))
  /\ [][\A s \in failed : /\ disk'[s] = disk[s]
                          /\ RequestsOf(s)' = RequestsOf(s)
                          /\ ContentsOf(s)' = ContentsOf(s)]_vars
\* the delivery of the first source failed, the second was delivered and saved
C13_Witness ==
  /\ pc = "done" /\ failed = {"a"}
  /\ \E j \in RequestsOf("a") : ~requests[j].ok
  /\ RequestsOf("b") # {} /\ disk["b"] # disk0["b"]

\* C14: Shutdown is called on the content server exactly once when the server
\* was started, and then only after the loop over the sources has ended,
\* whatever the outcomes of the sources; it is never called when no server was
\* started.
C14_ShutdownOnce ==
  /\ shutdowns <= 1
  /\ shutdowns = 1 =>
       /\ hcOnce = "ok"
       /\ pc \in {"srvShutdown", "recvStopped", "done"}
       /\ next = Len(sortedIds(config))
  /\ pc = "done" => shutdowns = IF hcOnce = "ok" THEN 1 ELSE 0
\* the run has ended with one source failed, one saved, and the server shut down
C14_Witness ==
  /\ pc = "done" /\ shutdowns = 1
  /\ failed # {} /\ \E s \in SourceIds \ failed : disk[s] # disk0[s]

\* C19 as stated: Shutdown has returned only when the goroutine around
\* Srv.Serve has ended, also when Srv.Shutdown reported an error.
C19_AsStated == shutRet # "none" => task = "exited"

RECURSIVE SumServed(_)
SumServed(n) == IF n = 0 THEN 0 ELSE SumServed(n - 1) + contents[n].served
\* the 404 answers given so far
NotFounds == misses.plain + misses.raced + misses.unknown

RequestSeq(s) == SelectSeq(requests, LAMBDA r : r.src = s)

\* C16: AddItems sends the items in consecutive batches of BatchSize items (20
\* when the configured size is <= 0), the last one possibly shorter, one
\* request per batch, in order and each item once; a rejected batch is the last
\* request of the call, which then fails; an empty list sends nothing and
\* succeeds.
C16_Batches ==
  /\ \A j \in 1..Len(requests) :
       /\ Len(requests[j].urls) >= 1
       /\ Len(requests[j].urls) <= BatchSize(batchConf)
       /\ \A k \in 1..Len(requests) :
            j < k /\ requests[k].src = requests[j].src =>
              Len(requests[j].urls) = BatchSize(batchConf) /\ requests[j].ok
  /\ Diffed =>
       LET rs == RequestsOf(source.Id)
           lastOk == \A j \in rs : (\A k \in rs : k <= j) => requests[j].ok
           sent == UrlsSent(source.Id, Len(requests))
       IN  /\ IsPrefix(sent, PocketUrls)
           /\ err = "addItems" <=> rs # {} /\ ~lastOk
           /\ pc = "wait" => sent = PocketUrls /\ \A j \in rs : requests[j].ok
           /\ pc = "addItems" /\ rs # {} => lastOk /\ Len(sent) = bi
\* AddItems has sent two items in one batch of the default size and returned nil
C16_Witness ==
  /\ pc = "wait" /\ batchConf = 0 /\ Len(pItems) = 2
  /\ Len(RequestSeq(source.Id)) = 1

\* C17: the snapshot file of a source changes at most once in a run, from its
\* content before the run to the complete feed fetched in this run for that
\* source; a failed rename leaves it as before the run.
C17_SnapshotWhole ==
  /\ [](/\ pc = "loop" /\ err = "rename" => disk[source.Id] = disk0[source.Id]
        /\ \A s \in SourceIds : disk[s] # disk0[s] => disk[s].exists)
  /\ [][\A s \in SourceIds :
          disk'[s] # disk[s] =>
            /\ s = source.Id
            /\ disk[s] = disk0[s]
            /\ disk'[s].exists /\ disk'[s].Items = newFeed.Items]_vars
\* the rename of a source with new items, all delivered, has failed
C17_Witness ==
  /\ pc = "loop" /\ err = "rename" /\ newItems # <<>>
  /\ disk[source.Id] = disk0[source.Id]

\* C18: no item returned by compareFeedItems has an empty id: a candidate with
\* an empty link is dropped, also when its GUID is non-empty and not in the
\* previous snapshot, and the loop goes on with the output as it was.
C18_NoEmptyId ==
  /\ \A j \in 1..Len(newItems) : newItems[j].Id # ""
  /\ Ran /\ item.Link = "" => Len(newItems) = lastLen
\* after an emitted item, a candidate with an unseen GUID and no link is dropped
C18_Witness ==
  /\ iter = 2 /\ item.Link = "" /\ item.GUID # "" /\ ~GuidMatches
  /\ lastLen = 1 /\ Len(newItems) = 1

\* C20 as stated: no lookup of server.Contents by a handler ever overlaps a
\* write of it by ServeContent (no lookup has gone wrong and the runtime has
\* not ended the process for it), and no Done holds more than one signal.
C20_AsStated ==
  /\ pc # "fatal"
  /\ misses.raced = 0
  /\ \A i \in 1..Len(contents) : contents[i].Done <= DoneCap

\* C21 as stated: once the completion of a document has fired it stays
\* observable (a waiter that starts later completes without a further fetch):
\* the document never returns to the pending state.
C21_AsStated ==
  [][\A i \in 1..Len(contents) : contents[i].Done >= 1 => contents'[i].Done >= 1]_vars
\* C21 amended: a document goes from unfetched to fetched by its first
\* successful GET and stays fetched; that GET puts the completion in the
\* buffer of Done, where it stays UNTIL THE ONE WAITER OF THE DOCUMENT RECEIVES
\* IT; THE BUFFER IS THEN EMPTY AGAIN AND ONLY A FURTHER GET FILLS IT.  The
\* waiter, once completed, stays completed.
C21_FetchedIsTerminal ==
  [][\A i \in 1..Len(contents) :
       LET c == contents[i]
           d == contents'[i]
       IN  /\ d.served >= c.served /\ d.fired >= c.fired /\ d.received >= c.received
           /\ c.served = 0 /\ d.served = 1 => c.Done = 0 /\ d.Done = 1 /\ d.fired = 1
           /\ d.Done > c.Done => d.served = c.served + 1
           /\ d.Done < c.Done => d.received = c.received + 1 /\ c.received = 0]_vars
\* the waiter of a document fetched once has received the completion and the
\* buffer of Done is empty again
C21_Witness ==
  \E i \in 1..Len(contents) :
    contents[i].served = 1 /\ contents[i].received = 1 /\ contents[i].Done = 0

\* the place of source id s in the ascending order of the ids
Rank(s) == CHOOSE i \in 1..Len(IdOrder) : IdOrder[i] = s
\* the sources that have sent, published, saved or failed so far
Touched ==
  {s \in SourceIds : \/ RequestsOf(s) # {} \/ ContentsOf(s) # {}
                     \/ disk[s] # disk0[s] \/ s \in failed}

\* C22: the sources are processed one at a time in ascending order of their
\* ids: a source is taken only when the one before it has finished, with or
\* without an error; only the current source sends, publishes or saves; each
\* configured source is taken once, and all have been taken when the loop ends.
C22_OneAtATime ==
  /\ [](/\ next <= Len(sortedIds(config))
        /\ \A s \in Touched : next >= 1 /\ Rank(s) <= Rank(source.Id)
        /\ \A i, j \in 1..Len(requests) :
             i < j => Rank(requests[i].src) <= Rank(requests[j].src)
        /\ \A i, j \in 1..Len(contents) :
             i < j => Rank(contents[i].src) <= Rank(contents[j].src)
        /\ RunOver => next = Cardinality(DOMAIN config.Sources))
  /\ [][/\ next' # next =>
             /\ pc = "loop" /\ pc' = "readOld" /\ next' = next + 1
             /\ source'.Id \in DOMAIN config.Sources
             /\ next >= 1 => Rank(source'.Id) > Rank(source.Id)
        /\ source' # source => next' # next
        /\ disk' # disk \/ requests' # requests \/ contents' # contents =>
             \A s \in SourceIds :
               \/ disk'[s] # disk[s]
               \/ RequestsOf(s)' # RequestsOf(s)
               \/ ContentsOf(s)' # ContentsOf(s)
               => s = source.Id /\ next >= 1 /\ pc \notin {"loop", "readOld", "readNew"}]_vars
\* the run has ended after both sources published, sent and saved
C22_Witness ==
  /\ pc = "done" /\ failed = {}
  /\ \A s \in SourceIds :
       RequestsOf(s) # {} /\ ContentsOf(s) # {} /\ disk[s] # disk0[s]

\* the hashIds of the URLs Pocket has accepted
Delivered ==
  {h \in Published : \E j \in 1..Len(requests) :
     requests[j].ok /\ \E k \in 1..Len(requests[j].urls) : requests[j].urls[k] = FullUrl(h)}
\* every URL submitted for a rendered source is the URL of an entry of
\* server.Contents; the URLs of another source are links and it has no document
SubmittedArePublished ==
  \A j \in 1..Len(requests) :
    LET r == requests[j]
    IN  IF config.Sources[r.src].UseServer
        THEN \A k \in 1..Len(r.urls) :
               \E h \in DOMAIN Contents : r.urls[k] = FullUrl(h)
        ELSE /\ \A k \in 1..Len(r.urls) : r.urls[k][1] = "link"
             /\ ContentsOf(r.src) = {}

\* C23 as stated: every item submitted for a rendered source carries the
\* generated URL of a document that is in server.Contents when it is submitted,
\* and a delivered URL never answers 404; for another source every submitted
\* item carries its link and nothing is published.
C23_AsStated ==
  /\ []SubmittedArePublished
  /\ [][\A h \in Delivered : ~RacedLookupMiss(h)]_vars

\* C24 as stated: once the start of the content server has failed, the failing
\* source and every later rendered source end with that error and keep their
\* snapshots.
C24_AsStated ==
  hcOnce = "err" /\ source.UseServer /\ pc = "loop" /\ Diffed =>
    err = "startServer" /\ disk[source.Id] = disk0[source.Id]
\* C24 amended: the start of the content server is attempted at most once in a
\* run, and only in a run that is not a dry run, for a rendered source with at
\* least one new item.  When it fails it is not tried again: the failing
\* source and every later rendered source THAT HAS A NEW ITEM end with that
\* error, send nothing and keep their snapshots; A LATER RENDERED SOURCE
\* WITHOUT NEW ITEMS ENDS WITHOUT ERROR AND ITS SNAPSHOT IS REPLACED; a source
\* that is not rendered is processed as usual.
C24_StartOnceNoRetry ==
  /\ [](/\ hcOnce # "unset" => ~dryRun
        /\ hcOnce = "err" =>
             /\ srv = "none" /\ task = "none" /\ contents = <<>> /\ shutdowns = 0
             /\ \A s \in SourceIds : config.Sources[s].UseServer => RequestsOf(s) = {}
        /\ err = "startServer" => hcOnce = "err" /\ source.UseServer /\ newItems # <<>>
        /\ hcOnce = "err" /\ pc = "loop" /\ Diffed =>
             IF source.UseServer /\ newItems # <<>>
             THEN err = "startServer" /\ disk[source.Id] = disk0[source.Id]
             ELSE /\ err \in {"nil", "addItems", "rename"}
                  /\ err = "nil" => disk[source.Id] = Snapshot(newFeed.Items))
  /\ [][hcOnce' # hcOnce =>
          /\ hcOnce = "unset"
          /\ pc = "publish" /\ source.UseServer /\ newItems # <<>>]_vars
\* after the start failed for the first source, the second, rendered and with
\* a new item, has ended with the same error
C24_Witness ==
  /\ pc = "loop" /\ next = 2 /\ err = "startServer"
  /\ failed = {"a", "b"} /\ hcOnce = "err"
  /\ totalItems = 2

\* C25: totalItems grows by the number of new items of every source whose
\* feeds were read and compared, once per source, in a dry run too and
\* whatever the consumer returns; totalItemErrors grows by that number for
\* exactly the sources whose AddItems failed; totalItemErrors <= totalItems in
\* every state, and the summary is reached with these totals whatever sources
\* failed.
C25_RunTotals ==
  /\ [](/\ totalItemErrors <= totalItems
        /\ next <= 1 =>
             /\ totalItems = IF ~newFeed.nil /\ pc \notin {"compare", "consume"}
                             THEN Len(newItems) ELSE 0
             /\ totalItemErrors = IF err = "addItems" THEN Len(newItems) ELSE 0
        /\ RunOver => next = Cardinality(DOMAIN config.Sources))
  /\ [][/\ totalItems' # totalItems \/ (pc = "consume" /\ pc' # "consume") =>
             /\ pc = "consume" /\ pc' \in {"consumed", "publish"}
             /\ totalItems' = totalItems + Len(newItems)
        /\ totalItemErrors' # totalItemErrors \/ (err' = "addItems" /\ err # "addItems") =>
             /\ pc = "addItems" /\ err = "nil" /\ err' = "addItems"
             /\ ~requests'[Len(requests')].ok
             /\ totalItemErrors' = totalItemErrors + Len(newItems)
        /\ pc = "compare" => pc' \in {"compare", "consume"}
        /\ pc' = "consume" => pc \in {"compare", "consume"}]_vars
\* the summary is reached after one source failed to start the content server
\* and the delivery of the other failed, each with one new item
C25_Witness ==
  /\ pc = "done" /\ totalItems = 2 /\ totalItemErrors = 1
  /\ hcOnce = "err" /\ failed = {"a", "b"}

\* the candidate is a record of the previous snapshot
InPrevious == \E e \in PrevEntries : e.GUID = item.GUID /\ e.Link = item.Link

\* C26: the diff of a feed against a snapshot equal to itself is empty: the
\* previous feed compared with itself yields no item, and no candidate that is
\* a record of the previous snapshot is emitted, with or without a GUID and
\* whatever its timestamps and the cutoff.
C26_SelfDiffEmpty ==
  /\ compareFeedItems(oldFeed, oldFeed, source) = <<>>
  /\ Ran /\ InPrevious => ~Appended
\* a candidate with a link and no GUID that is a record of the previous
\* snapshot was not emitted, after an item was
C26_Witness ==
  /\ Ran /\ InPrevious /\ item.GUID = "" /\ item.Link # ""
  /\ ~Appended /\ Len(newItems) = 1

\* every URL handed to AddItems for the current source has been fetched with
\* success at least once, and no handler is still running
AllFetched ==
  /\ \A k \in 1..Len(pItems) :
       \E i \in 1..Len(contents) :
         FullUrl(contents[i].hash) = pItems[k].Url /\ contents[i].served >= 1
  /\ inflight = EmptyBag

\* C27 as stated: for a rendered source whose delivery succeeded, once every
\* submitted URL has been fetched the wait can complete: every goroutine that
\* still waits finds the completion of its document in Done; also for two new
\* items with the same id when random_url is off.
C27_AsStated ==
  pc = "wait" /\ source.UseServer /\ AllFetched =>
    \A j \in waiting : contents[scList[j]].Done > 0

\* C28: a first fetch that is served before main starts to wait is not lost:
\* its completion stays in Done until the waiter of the document receives it
\* (nobody receives before the wait), so that the waiter can receive at once,
\* without a further fetch; and no handler ever has to wait for anything
\* before it returns.
C28_EarlyFetchKept ==
  /\ \A i \in 1..Len(contents) :
       contents[i].served >= 1 /\ contents[i].received = 0 => contents[i].Done = 1
  /\ pc \in {"publish", "serveContent", "addItems"} =>
       \A i \in ContentsOf(source.Id) : contents[i].received = 0
  /\ pc = "wait" =>
       \A j \in waiting :
         contents[scList[j]].served >= 1 => ENABLED WaiterReceive(j)
  /\ pc # "fatal" => \A r \in BagToSet(inflight) : ENABLED HandlerServe(r)
\* AddItems has not returned yet and both documents of the source have been
\* fetched: their completions are held in Done
C28_Witness ==
  /\ pc = "addItems" /\ bi = 1 /\ Len(scList) = 2
  /\ inflight = EmptyBag
  /\ \A j \in 1..Len(scList) :
       contents[scList[j]].served = 1 /\ contents[scList[j]].Done = 1

\* what the next run finds new for the current source over the same feed
NewAgain == compareFeedItems(readOldFeed(disk[source.Id]), newFeed, source)
\* Pocket has accepted every new item of the current source
AllAccepted ==
  /\ \A j \in RequestsOf(source.Id) : requests[j].ok
  /\ Len(UrlsSent(source.Id, Len(requests))) = Len(newItems)

\* C29: when a source is finished, or the process has ended, every item found
\* new is either accepted by Pocket in a run that then saved the snapshot of
\* its source, or found new again by the next run over the same feed, the
\* items of batches accepted before a rejected one included; a snapshot is
\* never replaced in a dry run or with a new item of the source not accepted.
C29_AtLeastOnce ==
  /\ ~newFeed.nil /\ pc \in {"loop", "fatal"} =>
       IF disk[source.Id] # disk0[source.Id]
       THEN ~dryRun /\ AllAccepted /\ disk[source.Id] = Snapshot(newFeed.Items)
       ELSE NewAgain = newItems
  /\ \A s \in SourceIds :
       disk[s] # disk0[s] => ~dryRun /\ \A j \in RequestsOf(s) : requests[j].ok
\* the first of two new items was accepted and the batch of the second
\* rejected: the next run finds both new again
C29_Witness ==
  /\ pc = "loop" /\ err = "addItems" /\ Len(newItems) = 2
  /\ Len(RequestSeq(source.Id)) = 2 /\ RequestSeq(source.Id)[1].ok
  /\ NewAgain = newItems

====
